---- MODULE Spec2Model ----
(***************************************************************************)
(* A model of the UniValue JSON value type of src/univalue/lib/univalue.cpp *)
(* One UniValue object (fields typ, val, entries, values) is driven through *)
(* its setters and read through its accessors.  Every member function is    *)
(* one action: it runs the whole function on the object, records the call   *)
(* (op and argument), the object as it was before the call (pre) and what   *)
(* the call produced (ret: nothing, a reference, a pointer or an exception).*)
(* The caller then drops that record (Return) and may call again.           *)
(* sentinel is the content of the shared object NullUniValue.                *)
(*                                                                         *)
(* The second part models src/rpc/blockchain.cpp: the UTXO scan            *)
(* reservation of scantxoutset, the block-change notification with the     *)
(* waitfor* RPCs, CalculatePercentilesBySize and ComputeNextBlockAndDepth, *)
(* each under a specification of its own.                                  *)
(*                                                                         *)
(* Text (std::string payloads) is a sequence of one-character strings.      *)
(* Object keys are atomic strings.  64-bit integers are four 16-bit limbs,  *)
(* least significant first.                                                 *)
(***************************************************************************)
EXTENDS Integers, Sequences, FiniteSets, TLC

VARIABLES typ, val, entries, values, sentinel, pc, call, pre, ret

(***************************************************************************)
(* The RPC part, src/rpc/blockchain.cpp: the file-scope variables of the   *)
(* UTXO scan (scantxoutset) and the per-call state of every RPC thread     *)
(* that is inside scantxoutset (scan).                                     *)
(***************************************************************************)
VARIABLES g_scan_in_progress, g_should_abort_scan, g_scan_progress, scan

(***************************************************************************)
(* The block-change notification (blockchain.cpp 42-49, 207-374):          *)
(* latestblock, the owner of the mutex cs_blockchange, the state of the    *)
(* thread that calls RPCNotifyBlockChange (notifier) and of the thread     *)
(* inside a waitfor* RPC (waiter).  rpcRunning is what IsRPCRunning()      *)
(* reports; the RPC server, not this file, owns it.                        *)
(***************************************************************************)
VARIABLES latestblock, cs_blockchange, rpcRunning, notifier, waiter

univalueVars == <<typ, val, entries, values, sentinel, pc, call, pre, ret>>

scanVars == <<g_scan_in_progress, g_should_abort_scan, g_scan_progress, scan>>

waitVars == <<latestblock, cs_blockchange, rpcRunning, notifier, waiter>>

rpcVars == <<scanVars, waitVars>>

vars == <<univalueVars, rpcVars>>

\* The RPC threads that may be inside scantxoutset at the same time.
ScanThreads == {"t1", "t2"}

\* A thread outside scantxoutset.  blocked_by and abort_seen_at are
\* history: which action held the reservation when this call's reserve()
\* failed, and where this call was when an "abort" call that returned true
\* set the abort flag while this call held the reservation.
NoScanCall ==
    [pc |-> "idle", action |-> "none", m_could_reserve |-> FALSE,
     items |-> 0, count |-> 0, result |-> "none",
     blocked_by |-> "none", abort_seen_at |-> "none"]

\* Static storage: the atomics start zero-initialized.
ScanInit ==
    /\ g_scan_in_progress = FALSE
    /\ g_should_abort_scan = FALSE
    /\ g_scan_progress = 0
    /\ scan = [t \in ScanThreads |-> NoScanCall]

\* The block indexes a notification may carry: two competing blocks at
\* one height and a block above them.
BlockIndex ==
    { [hash |-> "A", nHeight |-> 1], [hash |-> "B", nHeight |-> 1],
      [hash |-> "C", nHeight |-> 2] }

\* A null pindex.
NullIndex == [hash |-> "null", nHeight |-> -1]

\* latestblock has static storage: a zero hash and height 0.
ZeroBlock == [hash |-> "0", height |-> 0]

\* pre is history: latestblock when the call was made; after_stop tells
\* whether the call was made after the RPC server stopped.
NoNotify == [pc |-> "idle", pindex |-> NullIndex, pre |-> ZeroBlock, after_stop |-> FALSE]

\* A thread outside the waitfor* RPCs.  at_lock and waited are history:
\* latestblock when the call first held cs_blockchange, and whether the
\* call has blocked on cond_blockchange.
NoWait ==
    [pc |-> "idle", rpc |-> "none", timeout |-> 0, hash |-> "0", height |-> 0,
     block |-> ZeroBlock, at_lock |-> ZeroBlock, waited |-> FALSE]

WaitInit ==
    /\ latestblock = ZeroBlock
    /\ cs_blockchange = "none"
    /\ rpcRunning = TRUE
    /\ notifier = NoNotify
    /\ waiter = NoWait

RpcInit == ScanInit /\ WaitInit

(***************************************************************************)
(* Bounds of the input domains.                                            *)
(***************************************************************************)
MaxPairs == 3
MaxElems == 3
MaxStrLen == 2
MaxEqLen == 2
MaxMaskBits == 8

(***************************************************************************)
(* Values.                                                                 *)
(***************************************************************************)
UV(t, s, e, a) == [typ |-> t, val |-> s, entries |-> e, values |-> a]

\* A default-constructed UniValue; also the content of the sentinel.
NullUniValue == UV("VNULL", <<>>, <<>>, <<>>)

This == UV(typ, val, entries, values)

Keys == {"a", "b"}
LookupKeys == Keys \cup {"c"}

\* The values stored as children of the containers handed to the setters.
ChildVals == {NullUniValue, UV("VNUM", <<"1">>, <<>>, <<>>)}

Pairs == [first : Keys, second : ChildVals]

SeqsUpTo(S, n) == UNION {[1..k -> S] : k \in 0..n}

Objects == SeqsUpTo(Pairs, MaxPairs)
Arrays == SeqsUpTo(ChildVals, MaxElems)

Chars == {"0", "1", "-", ".", "e", " "}

LongStrs ==
    { <<"-", "1", ".", "0", "e", "+", "1", "0">>,
      <<"1", "0", ".", "5", "E", "-", "1">>,
      <<"1", ".", "0", "e">>,
      <<"1", "e", "+">>,
      <<"-", "0", "1">>,
      <<"1", ".", "5", "x">>,
      <<" ", "1", "0", " ">>,
      <<"1", "e", "1", "0">>,
      <<"0", ".", "0", "1">>,
      <<"N", "a", "N">>,
      <<"n", "o", "t", " ", "a", " ", "n", "u", "m", "b", "e", "r">> }

NumStrArgs == SeqsUpTo(Chars, MaxStrLen) \cup LongStrs

StrArgs == { <<>>, <<"a">>, <<"1">>, <<"1", ".", "5">>, <<"a", "b">>, <<"n", "a", "n">> }

(***************************************************************************)
(* Setters of plain values (univalue.cpp 144-188, 261-272).                *)
(***************************************************************************)
\* Mutants of setNull: a reset that forgets one of the payloads.
setNull_keepsEntries(v) == [v EXCEPT !.typ = "VNULL", !.val = <<>>, !.values = <<>>]

setNull_keepsValues(v) == [v EXCEPT !.typ = "VNULL", !.val = <<>>, !.entries = <<>>]

setNull(v) == [v EXCEPT !.typ = "VNULL", !.val = <<>>, !.entries = <<>>, !.values = <<>>]

setBool(v, val_) == [setNull(v) EXCEPT !.typ = IF val_ THEN "VTRUE" ELSE "VFALSE"]

\* Mutant: the tag is switched without the reset.
setObject0_noReset(v) == [v EXCEPT !.typ = "VOBJ"]

setObject0(v) == [setNull(v) EXCEPT !.typ = "VOBJ"]

setObject(v, object) == [setObject0(v) EXCEPT !.entries = object]

setArray0(v) == [setNull(v) EXCEPT !.typ = "VARR"]

setArray(v, array) == [setArray0(v) EXCEPT !.values = array]

\* Mutant: the text is stored without the reset.
setStr_noReset(v, val_) == [v EXCEPT !.typ = "VSTR", !.val = val_]

setStr(v, val_) == [setNull(v) EXCEPT !.typ = "VSTR", !.val = val_]

(***************************************************************************)
(* The number tokenizer.  getJsonToken is declared in univalue.h and       *)
(* defined outside the files modelled here; univalue.cpp only calls it.    *)
(* It is modelled by its contract: it scans one number token from the      *)
(* start of the span and reports JTOK_NUMBER exactly when that token is    *)
(* the complete span.                                                      *)
(***************************************************************************)
Digits == {"0", "1", "2", "3", "4", "5", "6", "7", "8", "9"}

IsDigitAt(s, i) == i <= Len(s) /\ s[i] \in Digits

RECURSIVE SkipDigits(_, _)
SkipDigits(s, i) == IF IsDigitAt(s, i) THEN SkipDigits(s, i + 1) ELSE i

getJsonToken(s) ==
    LET n == Len(s)
        Err == [tt |-> "JTOK_ERR", consumed |-> 0]
        firstDigit == IF n > 0 /\ s[1] = "-" THEN 2 ELSE 1
        endInt == SkipDigits(s, firstDigit)
        hasFrac == endInt <= n /\ s[endInt] = "."
        endFrac == IF hasFrac THEN SkipDigits(s, endInt + 1) ELSE endInt
        hasExp == endFrac <= n /\ s[endFrac] \in {"e", "E"}
        expDigit == IF endFrac + 1 <= n /\ s[endFrac + 1] \in {"+", "-"}
                    THEN endFrac + 2 ELSE endFrac + 1
        endExp == IF hasExp THEN SkipDigits(s, expDigit) ELSE endFrac
    IN  IF n = 0 THEN [tt |-> "JTOK_NONE", consumed |-> 0]
        ELSE IF ~IsDigitAt(s, firstDigit) THEN Err
        ELSE IF s[firstDigit] = "0" /\ IsDigitAt(s, firstDigit + 1) THEN Err
        ELSE IF hasFrac /\ ~IsDigitAt(s, endInt + 1) THEN Err
        ELSE IF hasExp /\ ~IsDigitAt(s, expDigit) THEN Err
        ELSE IF endExp - 1 # n THEN Err
        ELSE [tt |-> "JTOK_NUMBER", consumed |-> endExp - 1]

(***************************************************************************)
(* setNumStr (univalue.cpp 190-215).                                       *)
(***************************************************************************)
validNumStr(s) == getJsonToken(s).tt = "JTOK_NUMBER"

\* Mutant: the text is stored without validation.
setNumStr_unchecked(v, val_) == [v EXCEPT !.typ = "VNUM", !.val = val_, !.entries = <<>>, !.values = <<>>]

\* Mutant: the reset is done before the validation.
setNumStr_resetFirst(v, val_) ==
    IF ~validNumStr(val_) THEN [v EXCEPT !.typ = "VNULL", !.val = <<>>, !.entries = <<>>, !.values = <<>>]
    ELSE [v EXCEPT !.typ = "VNUM", !.val = val_, !.entries = <<>>, !.values = <<>>]

setNumStr(v, val_) ==
    IF ~validNumStr(val_) THEN v
    ELSE [setNull(v) EXCEPT !.typ = "VNUM", !.val = val_]

(***************************************************************************)
(* The copying setters take the argument by const reference.  When the     *)
(* reference is to the Value's own payload (its val, entries or values),   *)
(* the argument is read after the reset has cleared it: the copy is a      *)
(* self-assignment of the cleared member.                                  *)
(***************************************************************************)
setObject_self(v) ==
    LET reset == setObject0(v) IN [reset EXCEPT !.entries = reset.entries]

setArray_self(v) ==
    LET reset == setArray0(v) IN [reset EXCEPT !.values = reset.values]

setNumStr_self(v) ==
    IF ~validNumStr(v.val) THEN v
    ELSE LET reset == [setNull(v) EXCEPT !.typ = "VNUM"]
         IN  [reset EXCEPT !.val = reset.val]

setStr_self(v) ==
    LET reset == [setNull(v) EXCEPT !.typ = "VSTR"] IN [reset EXCEPT !.val = reset.val]

(***************************************************************************)
(* 64-bit integers: four 16-bit limbs, least significant first; a signed   *)
(* integer is its two's complement bit pattern.                            *)
(***************************************************************************)
Base == 2^16

DigitChars == <<"0", "1", "2", "3", "4", "5", "6", "7", "8", "9">>

SignedTypes == {"short", "int", "long", "long long"}
UnsignedTypes == {"unsigned short", "unsigned", "unsigned long", "unsigned long long"}

\* The implicit conversion of the argument to int64_t or uint64_t:
\* sign extension of a negative signed value, zero extension otherwise.
Widen(bits, isSigned) ==
    LET w == Len(bits)
        neg == isSigned /\ bits[w] >= Base \div 2
    IN  [i \in 1..4 |-> IF i <= w THEN bits[i] ELSE IF neg THEN Base - 1 ELSE 0]

IsZero(x) == \A i \in 1..Len(x) : x[i] = 0

IsNegative(x) == x[Len(x)] >= Base \div 2

\* 2^64 - x: every limb complemented, plus one.
Negate(x) ==
    LET c == [i \in 1..Len(x) |-> Base - 1 - x[i]]
        carry(i) == \A j \in 1..(i - 1) : c[j] = Base - 1
    IN  [i \in 1..Len(x) |-> (c[i] + (IF carry(i) THEN 1 ELSE 0)) % Base]

\* Long division by ten, most significant limb first.
RECURSIVE RemAbove(_, _)
RemAbove(x, i) ==
    IF i = Len(x) THEN 0 ELSE (RemAbove(x, i + 1) * Base + x[i + 1]) % 10

Div10(x) == [i \in 1..Len(x) |-> (RemAbove(x, i) * Base + x[i]) \div 10]

Mod10(x) == (RemAbove(x, 1) * Base + x[1]) % 10

RECURSIVE DecDigits(_)
DecDigits(x) ==
    IF IsZero(x) THEN <<>> ELSE Append(DecDigits(Div10(x)), DigitChars[Mod10(x) + 1])

\* What "%" PRIu64 writes.
FormatU64(x) == IF IsZero(x) THEN <<"0">> ELSE DecDigits(x)

\* What "%" PRId64 writes.
FormatD64(x) == IF IsNegative(x) THEN <<"-">> \o FormatU64(Negate(x)) ELSE FormatU64(x)

(***************************************************************************)
(* setInt (univalue.cpp 217-240).                                          *)
(***************************************************************************)
\* Mutant: a buffer sized for the digits without the sign.
bufSize_noSign == 21 - 1

bufSize == 21

\* std::snprintf: the text it would write in full; its length is the
\* return value n, whatever the buffer holds.
snprintf(isSigned, val_) == IF isSigned THEN FormatD64(val_) ELSE FormatU64(val_)

setInt64(v, isSigned, val_) ==
    LET out == snprintf(isSigned, val_)
        n == Len(out)
    IN  IF n <= 0 \/ n >= bufSize THEN v
        ELSE [setNull(v) EXCEPT !.typ = "VNUM", !.val = SubSeq(out, 1, n)]

setInt(v, type, bits) ==
    setInt64(v, type \in SignedTypes, Widen(bits, type \in SignedTypes))

\* Bit patterns handed to setInt, by the width of the argument type
\* (short 16 bits, int 32, long and long long 64).
Bits16 == { <<0>>, <<1>>, <<9>>, <<10>>, <<32767>>, <<32768>>, <<65535>> }

Bits32 == { <<0, 0>>, <<10, 0>>, <<65535, 32767>>, <<0, 32768>>, <<65535, 65535>> }

Bits64 ==
    { <<0, 0, 0, 0>>, <<1, 0, 0, 0>>, <<100, 0, 0, 0>>, <<0, 0, 1, 0>>,
      <<65535, 65535, 65535, 32767>>, <<0, 0, 0, 32768>>,
      <<65535, 65535, 65535, 65535>>, <<1, 0, 0, 32768>>,
      <<0, 42852, 46771, 3552>>, <<0, 35304, 8964, 35527>>,
      <<65535, 35303, 8964, 35527>> }

BitsOf(type) ==
    IF type \in {"short", "unsigned short"} THEN Bits16
    ELSE IF type \in {"int", "unsigned"} THEN Bits32
    ELSE Bits64

IntArgs == UNION {{[type |-> ty, bits |-> b] : b \in BitsOf(ty)} : ty \in SignedTypes \cup UnsignedTypes}

(***************************************************************************)
(* Doubles.  A double is NaN, an infinity, or a finite value given by its  *)
(* sign and its decimal expansion correctly rounded to 16 significant      *)
(* digits: digs[1].digs[2..] * 10^exp, trailing zeros dropped; zero is the *)
(* digit 0 with exponent 0.                                                *)
(***************************************************************************)
Double(c, neg, digs, e) == [cls |-> c, neg |-> neg, digs |-> digs, exp |-> e]

isfinite(d) == d.cls = "finite"

Zeros(n) == [i \in 1..n |-> "0"]

DigitText(digs) == [i \in 1..Len(digs) |-> DigitChars[digs[i] + 1]]

RECURSIVE NatText(_)
NatText(n) ==
    IF n < 10 THEN <<DigitChars[n + 1]>>
    ELSE Append(NatText(n \div 10), DigitChars[(n % 10) + 1])

Abs(n) == IF n < 0 THEN -n ELSE n

\* The exponent of the %e style: a sign and at least two digits.
ExpText(e) ==
    <<"e", IF e < 0 THEN "-" ELSE "+">>
        \o (IF Abs(e) < 10 THEN <<"0">> ELSE <<>>) \o NatText(Abs(e))

\* operator<<(double) of a classic-locale stream with the given precision and
\* the default floatfield: printf's %g without '#'.
FormatG(d, precision) ==
    LET sign == IF d.neg THEN <<"-">> ELSE <<>>
        t == DigitText(d.digs)
        n == Len(t)
        X == d.exp
        scientific ==
            <<t[1]>> \o (IF n > 1 THEN <<".">> \o SubSeq(t, 2, n) ELSE <<>>) \o ExpText(X)
        fixed ==
            IF X < 0 THEN <<"0", ".">> \o Zeros(-X - 1) \o t
            ELSE IF n <= X + 1 THEN t \o Zeros(X + 1 - n)
            ELSE SubSeq(t, 1, X + 1) \o <<".">> \o SubSeq(t, X + 2, n)
    IN  IF d.cls = "nan" THEN sign \o <<"n", "a", "n">>
        ELSE IF d.cls = "inf" THEN sign \o <<"i", "n", "f">>
        ELSE IF X < -4 \/ X >= precision THEN sign \o scientific
        ELSE sign \o fixed

(***************************************************************************)
(* setFloat (univalue.cpp 242-259).                                        *)
(***************************************************************************)
Precision == 16

\* Mutant: the finiteness test is missing.
setFloat_noFiniteCheck(v, val_) ==
    [v EXCEPT !.typ = "VNUM", !.val = FormatG(val_, Precision), !.entries = <<>>, !.values = <<>>]

setFloat(v, val_) ==
    IF ~isfinite(val_) THEN v
    ELSE [setNull(v) EXCEPT !.typ = "VNUM", !.val = FormatG(val_, Precision)]

NonFinite == {Double(c, neg, <<>>, 0) : c \in {"nan", "inf"}, neg \in BOOLEAN}

DigitSeqs ==
    { <<1>>, <<1, 5>>, <<9, 0, 7>>,
      <<1, 2, 3, 4, 5, 6, 7, 8, 9, 0, 1, 2, 3, 4, 5, 6>> }

Exponents == {-300, -5, -4, -1, 0, 2, 15, 16, 300}

Finite ==
    {Double("finite", neg, <<0>>, 0) : neg \in BOOLEAN}
        \cup {Double("finite", neg, ds, e) : neg \in BOOLEAN, ds \in DigitSeqs, e \in Exponents}

DoubleArgs == NonFinite \cup Finite

(***************************************************************************)
(* What a call produces: nothing, a reference or a pointer (the address of *)
(* a stored element, of the sentinel NullUniValue, or null), or a thrown  *)
(* exception with the pieces its message is concatenated from.  Indices    *)
(* count from 0 as in the source; sequences here count from 1.             *)
(***************************************************************************)
NoCall == [op |-> "none", arg |-> <<>>, alias |-> FALSE]

NoAddr == [base |-> "none", idx |-> 0]

Void == [kind |-> "void", addr |-> NoAddr, type |-> "none", what |-> <<>>, value |-> <<>>]

nullptr == [base |-> "nullptr", idx |-> 0]

Sentinel == [base |-> "NullUniValue", idx |-> 0]

EntryAddr(index) == [base |-> "entries", idx |-> index]

ValueAddr(index) == [base |-> "values", idx |-> index]

Ref(a) == [kind |-> "ref", addr |-> a, type |-> "none", what |-> <<>>, value |-> <<>>]

Ptr(a) == [kind |-> "ptr", addr |-> a, type |-> "none", what |-> <<>>, value |-> <<>>]

Throw(type, what) ==
    [kind |-> "throw", addr |-> NoAddr, type |-> type, what |-> what, value |-> <<>>]

\* A result returned by value (a bool, a std::string).
Value(x) == [kind |-> "value", addr |-> NoAddr, type |-> "none", what |-> <<>>, value |-> x]

\* The value an address of object v (or of the sentinel) holds.
Deref(v, a) ==
    IF a.base = "entries" THEN v.entries[a.idx + 1].second
    ELSE IF a.base = "values" THEN v.values[a.idx + 1]
    ELSE NullUniValue

(***************************************************************************)
(* The containers' accessors (univalue.cpp 24-68, 103-109).                *)
(***************************************************************************)
\* The range-for of Object::locate from position i on: the position of the
\* first entry whose key matches, or 0.
RECURSIVE LocateFrom(_, _, _)
LocateFrom(vector, key, i) ==
    IF i > Len(vector) THEN 0
    ELSE IF vector[i].first = key THEN i
    ELSE LocateFrom(vector, key, i + 1)

\* Mutant: the scan keeps the last match instead of returning the first.
RECURSIVE LocateLastFrom(_, _, _)
LocateLastFrom(vector, key, i) ==
    IF i = 0 THEN 0
    ELSE IF vector[i].first = key THEN i
    ELSE LocateLastFrom(vector, key, i - 1)

Object_locate_last(vector, key) ==
    LET i == LocateLastFrom(vector, key, Len(vector))
    IN  IF i = 0 THEN [base |-> "nullptr", idx |-> 0] ELSE [base |-> "entries", idx |-> i - 1]

Object_locate(vector, key) ==
    LET i == LocateFrom(vector, key, 1)
    IN  IF i = 0 THEN nullptr ELSE EntryAddr(i - 1)

Object_subscriptKey(vector, key) ==
    LET found == Object_locate(vector, key)
    IN  IF found # nullptr THEN Ref(found) ELSE Ref(Sentinel)

\* Mutant: the bound test is off by one.
Object_subscriptIndex_offByOne(vector, index) ==
    IF index <= Len(vector) THEN Ref(EntryAddr(index)) ELSE Ref(Sentinel)

Object_subscriptIndex(vector, index) ==
    IF index < Len(vector) THEN Ref(EntryAddr(index)) ELSE Ref(Sentinel)

\* Mutant: a missing key answers with the sentinel instead of throwing.
Object_atKey_sentinel(vector, key) ==
    LET found == Object_locate(vector, key)
    IN  IF found # nullptr THEN Ref(found) ELSE Ref(Sentinel)

Object_atKey(vector, key) ==
    LET found == Object_locate(vector, key)
    IN  IF found # nullptr THEN Ref(found)
        ELSE Throw("out_of_range", <<"Key not found in JSON object: ", key>>)

\* Mutant: an index past the end gives the last element, not the sentinel.
Array_subscriptIndex_clamped(vector, index) ==
    IF index < Len(vector) THEN Ref(ValueAddr(index))
    ELSE IF vector # <<>> THEN Ref(ValueAddr(Len(vector) - 1))
    ELSE Ref(Sentinel)

Array_subscriptIndex(vector, index) ==
    IF index < Len(vector) THEN Ref(ValueAddr(index)) ELSE Ref(Sentinel)

\* std::to_string of a size_type: the decimal digits, joined.
RECURSIVE JoinChars(_)
JoinChars(s) == IF s = <<>> THEN "" ELSE s[1] \o JoinChars(Tail(s))

to_string(n) == JoinChars(NatText(n))

Object_atIndex(vector, index) ==
    IF index < Len(vector) THEN Ref(EntryAddr(index))
    ELSE Throw("out_of_range",
               <<"Index ", to_string(index), " out of range in JSON object of length ",
                 to_string(Len(vector))>>)

\* Mutant: the message reports the last valid index instead of the length.
Array_atIndex_wrongSize(vector, index) ==
    IF index < Len(vector) THEN Ref(ValueAddr(index))
    ELSE Throw("out_of_range",
               <<"Index ", to_string(index), " out of range in JSON array of length ",
                 to_string(Len(vector) + 1)>>)

Array_atIndex(vector, index) ==
    IF index < Len(vector) THEN Ref(ValueAddr(index))
    ELSE Throw("out_of_range",
               <<"Index ", to_string(index), " out of range in JSON array of length ",
                 to_string(Len(vector))>>)

(***************************************************************************)
(* front and back of the containers (univalue.cpp 87-101, 128-142).        *)
(***************************************************************************)
Object_front(vector) ==
    IF vector # <<>> THEN Ref(EntryAddr(0)) ELSE Ref(Sentinel)

\* Mutant: back answers with the first element.
Object_back_first(vector) ==
    IF vector # <<>> THEN Ref(EntryAddr(0)) ELSE Ref(Sentinel)

Object_back(vector) ==
    IF vector # <<>> THEN Ref(EntryAddr(Len(vector) - 1)) ELSE Ref(Sentinel)

Array_front(vector) ==
    IF vector # <<>> THEN Ref(ValueAddr(0)) ELSE Ref(Sentinel)

Array_back(vector) ==
    IF vector # <<>> THEN Ref(ValueAddr(Len(vector) - 1)) ELSE Ref(Sentinel)

(***************************************************************************)
(* UniValue's accessors (univalue.cpp 274-292, 318-338, 389-404).          *)
(***************************************************************************)
uvTypeName(t) ==
    CASE t = "VNULL" -> "null"
      [] t = "VFALSE" -> "false"
      [] t = "VTRUE" -> "true"
      [] t = "VOBJ" -> "object"
      [] t = "VARR" -> "array"
      [] t = "VNUM" -> "number"
      [] t = "VSTR" -> "string"

locate(v, key) == Ptr(Object_locate(v.entries, key))

subscriptKey(v, key) ==
    LET found == locate(v, key).addr
    IN  IF found # nullptr THEN Ref(found) ELSE Ref(Sentinel)

subscriptIndex(v, index) ==
    CASE v.typ = "VOBJ" -> Object_subscriptIndex(v.entries, index)
      [] v.typ = "VARR" -> Array_subscriptIndex(v.values, index)
      [] OTHER -> Ref(Sentinel)

\* Mutant: the tag is not tested before the container is asked.
atKey_noTagTest(v, key) == Object_atKey(v.entries, key)

atKey(v, key) ==
    IF v.typ = "VOBJ" THEN Object_atKey(v.entries, key)
    ELSE Throw("domain_error",
               <<"Cannot look up keys in JSON ", uvTypeName(v.typ),
                 ", expected object with key: ", key>>)

atIndex(v, index) ==
    CASE v.typ = "VOBJ" -> Object_atIndex(v.entries, index)
      [] v.typ = "VARR" -> Array_atIndex(v.values, index)
      [] OTHER ->
           Throw("domain_error",
                 <<"Cannot look up indices in JSON ", uvTypeName(v.typ),
                   ", expected array or object larger than ", to_string(index),
                   " elements">>)

front(v) ==
    CASE v.typ = "VOBJ" -> Object_front(v.entries)
      [] v.typ = "VARR" -> Array_front(v.values)
      [] OTHER -> Ref(Sentinel)

back(v) ==
    CASE v.typ = "VOBJ" -> Object_back(v.entries)
      [] v.typ = "VARR" -> Array_back(v.values)
      [] OTHER -> Ref(Sentinel)

(***************************************************************************)
(* uvTypeName of a bit mask (univalue.cpp 406-424).  The values of the     *)
(* VType enumerators are set in univalue.h, outside the files modelled     *)
(* here: each tag is one bit, in the order null, false, true, object,      *)
(* array, number, string.                                                  *)
(***************************************************************************)
VTypeBit ==
    [VNULL |-> 2^0, VFALSE |-> 2^1, VTRUE |-> 2^2, VOBJ |-> 2^3,
     VARR |-> 2^4, VNUM |-> 2^5, VSTR |-> 2^6]

\* t & type, for a one-bit type.
BitAnd(t, bit) == IF (t \div bit) % 2 = 1 THEN bit ELSE 0

\* Mutant: the separator is added without testing result.empty().
appendTypeNameIfTypeIncludes_alwaysSlash(result, t, type) ==
    IF BitAnd(t, VTypeBit[type]) # 0
    THEN Append(Append(result, "/"), uvTypeName(type))
    ELSE result

\* The lambda: result extended by the pieces it appends.
appendTypeNameIfTypeIncludes(result, t, type) ==
    IF BitAnd(t, VTypeBit[type]) # 0
    THEN Append(IF result # <<>> THEN Append(result, "/") ELSE result, uvTypeName(type))
    ELSE result

TypeOrder == <<"VNULL", "VFALSE", "VTRUE", "VOBJ", "VARR", "VNUM", "VSTR">>

RECURSIVE AppendTypes(_, _, _)
AppendTypes(result, t, i) ==
    IF i > Len(TypeOrder) THEN result
    ELSE AppendTypes(appendTypeNameIfTypeIncludes(result, t, TypeOrder[i]), t, i + 1)

uvTypeNameMask(t) == AppendTypes(<<>>, t, 1)

Masks == 0..(2^MaxMaskBits - 1)

(***************************************************************************)
(* Equality (univalue.cpp 365-387).  The containers' operator== is defined *)
(* in univalue.h, outside the files modelled here; it is modelled by its   *)
(* contract: the same number of elements and, position by position, equal  *)
(* keys and equal values.                                                  *)
(***************************************************************************)
RECURSIVE operatorEq(_, _)

Object_eq(a, b) ==
    /\ Len(a) = Len(b)
    /\ \A i \in 1..Len(a) : a[i].first = b[i].first /\ operatorEq(a[i].second, b[i].second)

Array_eq(a, b) ==
    /\ Len(a) = Len(b)
    /\ \A i \in 1..Len(a) : operatorEq(a[i], b[i])

\* Mutant: the tags are not compared first.
operatorEq_noTagTest(v, other) ==
    CASE v.typ = "VOBJ" -> Object_eq(v.entries, other.entries)
      [] v.typ = "VARR" -> Array_eq(v.values, other.values)
      [] v.typ \in {"VNUM", "VSTR"} -> v.val = other.val
      [] OTHER -> TRUE

\* Mutant: the Object case compares the array payloads.
operatorEq_wrongContainer(v, other) ==
    IF v.typ # other.typ THEN FALSE
    ELSE CASE v.typ = "VOBJ" -> Array_eq(v.values, other.values)
           [] v.typ = "VARR" -> Array_eq(v.values, other.values)
           [] v.typ \in {"VNUM", "VSTR"} -> v.val = other.val
           [] OTHER -> TRUE

operatorEq(v, other) ==
    IF v.typ # other.typ THEN FALSE
    ELSE CASE v.typ = "VOBJ" -> Object_eq(v.entries, other.entries)
           [] v.typ = "VARR" -> Array_eq(v.values, other.values)
           [] v.typ \in {"VNUM", "VSTR"} -> v.val = other.val
           [] OTHER -> TRUE

\* Values compared in the equality specification: the leaves, and the arrays
\* and objects of at most MaxEqLen elements over a leaf and two one-element
\* arrays.
Num(s) == UV("VNUM", s, <<>>, <<>>)

Str(s) == UV("VSTR", s, <<>>, <<>>)

EqLeaves ==
    { NullUniValue, UV("VTRUE", <<>>, <<>>, <<>>), UV("VFALSE", <<>>, <<>>, <<>>),
      Num(<<"1">>), Num(<<"1", ".", "5">>), Num(<<"1", ".", "5", "0">>),
      Str(<<"1">>), Str(<<"1", ".", "5">>) }

EqChildren ==
    { Num(<<"1">>),
      UV("VARR", <<>>, <<>>, <<Num(<<"1">>)>>),
      UV("VARR", <<>>, <<>>, <<Str(<<"1">>)>>) }

EqValues ==
    EqLeaves
        \cup {UV("VARR", <<>>, <<>>, a) : a \in SeqsUpTo(EqChildren, MaxEqLen)}
        \cup {UV("VOBJ", <<>>, o, <<>>) : o \in SeqsUpTo([first : Keys, second : EqChildren], MaxEqLen)}

\* The right-hand sides compared against in the main specification.
EqOthers ==
    { NullUniValue, Num(<<"1">>), Str(<<"1">>),
      UV("VARR", <<>>, <<>>, <<Num(<<"1">>)>>),
      UV("VOBJ", <<>>, <<[first |-> "a", second |-> Num(<<"1">>)]>>, <<>>) }

(***************************************************************************)
(* Calls.                                                                  *)
(***************************************************************************)
Indexes == 0..(MaxPairs + 1)

Assign(r) ==
    /\ typ' = r.typ
    /\ val' = r.val
    /\ entries' = r.entries
    /\ values' = r.values

Called(op, arg, r, result) ==
    /\ pc = "idle"
    /\ pc' = "called"
    /\ call' = [op |-> op, arg |-> arg, alias |-> FALSE]
    /\ pre' = This
    /\ Assign(r)
    /\ ret' = result
    /\ UNCHANGED sentinel
    /\ UNCHANGED rpcVars

CallSetNull == Called("setNull", <<>>, setNull(This), Void)

CallSetBool == \E b \in BOOLEAN : Called("setBool", b, setBool(This, b), Void)

CallSetObject == \E o \in Objects : Called("setObject", o, setObject(This, o), Void)

CallSetArray == \E a \in Arrays : Called("setArray", a, setArray(This, a), Void)

CallSetStr == \E s \in StrArgs : Called("setStr", s, setStr(This, s), Void)

CallSetInt == \E x \in IntArgs : Called("setInt", x, setInt(This, x.type, x.bits), Void)

CallSetFloat == \E d \in DoubleArgs : Called("setFloat", d, setFloat(This, d), Void)

CallSetNumStr == \E s \in NumStrArgs : Called("setNumStr", s, setNumStr(This, s), Void)

\* A setter called with a reference to the Value's own payload; arg records
\* what the reference denoted when the call was made.
CalledAlias(op, arg, r) ==
    /\ pc = "idle"
    /\ pc' = "called"
    /\ call' = [op |-> op, arg |-> arg, alias |-> TRUE]
    /\ pre' = This
    /\ Assign(r)
    /\ ret' = Void
    /\ UNCHANGED sentinel
    /\ UNCHANGED rpcVars

CallSetObjectSelf == CalledAlias("setObject", entries, setObject_self(This))

CallSetArraySelf == CalledAlias("setArray", values, setArray_self(This))

CallSetStrSelf == CalledAlias("setStr", val, setStr_self(This))

CallSetNumStrSelf == CalledAlias("setNumStr", val, setNumStr_self(This))

CallLocate == \E k \in LookupKeys : Called("locate", k, This, locate(This, k))

\* Mutant: a lookup of a missing key inserts a Null under that key.
CallSubscriptKey_inserts ==
    \E k \in LookupKeys :
        Called("operator[](key)", k,
               IF typ = "VOBJ" /\ locate(This, k).addr = nullptr /\ Len(entries) < MaxPairs
               THEN [This EXCEPT !.entries = Append(@, [first |-> k, second |-> NullUniValue])]
               ELSE This,
               subscriptKey(This, k))

CallSubscriptKey == \E k \in LookupKeys : Called("operator[](key)", k, This, subscriptKey(This, k))

CallSubscriptIndex == \E i \in Indexes : Called("operator[](index)", i, This, subscriptIndex(This, i))

CallAtKey == \E k \in LookupKeys : Called("at(key)", k, This, atKey(This, k))

CallAtIndex == \E i \in Indexes : Called("at(index)", i, This, atIndex(This, i))

CallFront == Called("front", <<>>, This, front(This))

CallBack == Called("back", <<>>, This, back(This))

\* The non-const overloads (univalue.cpp 48-55, 63-68, 78-85, 119-126, 321-323,
\* 332-338, 352-363): the same bodies, the result usable for writing.
MutableOps == {"locate mutable", "at(key) mutable", "at(index) mutable"}

CallLocateMutable ==
    \E k \in LookupKeys : Called("locate mutable", k, This, locate(This, k))

CallAtKeyMutable ==
    \E k \in LookupKeys : Called("at(key) mutable", k, This, atKey(This, k))

CallAtIndexMutable ==
    \E i \in Indexes : Called("at(index) mutable", i, This, atIndex(This, i))

\* The caller assigns w to the UniValue the returned reference or non-null
\* pointer designates.
WriteThrough ==
    /\ pc = "called"
    /\ call.op \in MutableOps
    /\ ret.kind \in {"ref", "ptr"}
    /\ ret.addr # nullptr
    /\ \E w \in ChildVals :
         /\ entries' = IF ret.addr.base = "entries"
                       THEN [entries EXCEPT ![ret.addr.idx + 1].second = w]
                       ELSE entries
         /\ values' = IF ret.addr.base = "values"
                      THEN [values EXCEPT ![ret.addr.idx + 1] = w]
                      ELSE values
         /\ sentinel' = IF ret.addr.base = "NullUniValue" THEN w ELSE sentinel
    /\ pc' = "wrote"
    /\ UNCHANGED <<typ, val, call, pre, ret>>
    /\ UNCHANGED rpcVars

CallEquals ==
    \E other \in EqOthers : Called("operator==", other, This, Value(operatorEq(This, other)))

CallEqualsAny ==
    \E other \in EqValues : Called("operator==", other, This, Value(operatorEq(This, other)))

\* uvTypeName of the Value's own tag, as the exception messages use it.
CallUvTypeName == Called("uvTypeName", typ, This, Value(uvTypeName(typ)))

CallUvTypeNameMask ==
    \E t \in Masks : Called("uvTypeName(int)", t, This, Value(uvTypeNameMask(t)))

Return ==
    /\ pc \in {"called", "wrote"}
    /\ pc' = "idle"
    /\ call' = NoCall
    /\ pre' = NullUniValue
    /\ ret' = Void
    /\ UNCHANGED <<typ, val, entries, values, sentinel>>
    /\ UNCHANGED rpcVars

Init ==
    /\ typ = "VNULL" /\ val = <<>> /\ entries = <<>> /\ values = <<>>
    /\ sentinel = NullUniValue
    /\ pc = "idle"
    /\ call = NoCall
    /\ pre = NullUniValue
    /\ ret = Void
    /\ RpcInit

Next ==
    \/ CallSetNull
    \/ CallSetBool
    \/ CallSetObject
    \/ CallSetArray
    \/ CallSetStr
    \/ CallSetNumStr
    \/ CallSetInt
    \/ CallSetFloat
    \/ CallSetObjectSelf
    \/ CallSetArraySelf
    \/ CallSetStrSelf
    \/ CallSetNumStrSelf
    \/ CallLocate
    \/ CallSubscriptKey
    \/ CallSubscriptIndex
    \/ CallAtKey
    \/ CallAtIndex
    \/ CallFront
    \/ CallBack
    \/ CallEquals
    \/ CallUvTypeName
    \/ CallLocateMutable
    \/ CallAtKeyMutable
    \/ CallAtIndexMutable
    \/ WriteThrough
    \/ Return

Spec == Init /\ [][Next]_vars

(***************************************************************************)
(* The equality specification: any two of EqValues are compared.           *)
(***************************************************************************)
InitEq ==
    /\ \E v \in EqValues :
         typ = v.typ /\ val = v.val /\ entries = v.entries /\ values = v.values
    /\ sentinel = NullUniValue
    /\ pc = "idle"
    /\ call = NoCall
    /\ pre = NullUniValue
    /\ ret = Void
    /\ RpcInit

NextEq ==
    \/ CallEqualsAny
    \/ Return

SpecEq == InitEq /\ [][NextEq]_vars

(***************************************************************************)
(* The type-name specification: uvTypeName of every mask.                  *)
(***************************************************************************)
NextTypeName ==
    \/ CallUvTypeNameMask
    \/ Return

SpecTypeName == Init /\ [][NextTypeName]_vars

(***************************************************************************)
(* Properties.                                                             *)
(***************************************************************************)
AllDigits(s) == \A i \in 1..Len(s) : s[i] \in Digits

\* The JSON number grammar: -? int frac? exp?
IsJsonInt(s) == Len(s) >= 1 /\ AllDigits(s) /\ (Len(s) > 1 => s[1] # "0")

IsJsonFrac(s) == Len(s) >= 2 /\ s[1] = "." /\ AllDigits(Tail(s))

IsJsonExp(s) ==
    /\ Len(s) >= 2
    /\ s[1] \in {"e", "E"}
    /\ LET r == IF s[2] \in {"+", "-"} THEN SubSeq(s, 3, Len(s)) ELSE Tail(s)
       IN  Len(r) >= 1 /\ AllDigits(r)

IsJsonNumber(s) ==
    LET body == IF Len(s) > 0 /\ s[1] = "-" THEN Tail(s) ELSE s
        m == Len(body)
    IN  \E a \in 1..m : \E b \in a..m :
            /\ IsJsonInt(SubSeq(body, 1, a))
            /\ b = a \/ IsJsonFrac(SubSeq(body, a + 1, b))
            /\ b = m \/ IsJsonExp(SubSeq(body, b + 1, m))

After(op) == pc = "called" /\ call.op = op

\* C1: after any sequence of setter calls the tag and the payloads are
\* consistent: the object payload is empty unless the tag is Object, the
\* array payload is empty unless the tag is Array, and the text payload is
\* empty unless the tag is Number or String.
C1_TagPayloadConsistent ==
    /\ typ # "VOBJ" => entries = <<>>
    /\ typ # "VARR" => values = <<>>
    /\ typ \notin {"VNUM", "VSTR"} => val = <<>>

C1_Witness ==
    /\ After("setStr")
    /\ pre.typ = "VOBJ" /\ Len(pre.entries) = MaxPairs
    /\ typ = "VSTR" /\ val # <<>>

\* C2: whenever the tag is Number (set by setNumStr, setInt or setFloat) the
\* text payload is one complete JSON number token.
C2_NumberPayloadIsJsonNumber == typ = "VNUM" => IsJsonNumber(val)

C2_Witness ==
    /\ After("setNumStr")
    /\ typ = "VNUM" /\ val = call.arg
    /\ \E i \in 1..Len(val) : val[i] = "."
    /\ \E i \in 1..Len(val) : val[i] \in {"e", "E"}

\* C3: setNumStr with a text that is not a JSON number leaves the tag and
\* every payload as they were and raises nothing.
C3_SetNumStrInvalidIsNoOp ==
    (After("setNumStr") /\ ~IsJsonNumber(call.arg)) => (This = pre /\ ret = Void)

C3_Witness ==
    /\ After("setNumStr")
    /\ ~IsJsonNumber(call.arg) /\ Len(call.arg) > MaxStrLen
    /\ pre.typ = "VOBJ" /\ Len(pre.entries) = MaxPairs
    /\ This = pre

\* C4: setFloat with NaN or an infinity leaves the tag and every payload as
\* they were and raises nothing.
C4_SetFloatNonFiniteIsNoOp ==
    (After("setFloat") /\ call.arg.cls \in {"nan", "inf"}) => (This = pre /\ ret = Void)

C4_Witness ==
    /\ After("setFloat")
    /\ call.arg.cls = "inf" /\ call.arg.neg
    /\ pre.typ = "VSTR" /\ pre.val # <<>>
    /\ This = pre
\* Decimal text read back as five 16-bit limbs (enough for twenty digits).
CarryIn10(x, d, i) ==
    LET c[j \in 1..i] == IF j = 1 THEN d ELSE (x[j - 1] * 10 + c[j - 1]) \div Base
    IN  c[i]

Times10Plus(x, d) == [i \in 1..Len(x) |-> (x[i] * 10 + CarryIn10(x, d, i)) % Base]

DigitValue(ch) == CHOOSE d \in 0..9 : DigitChars[d + 1] = ch

RECURSIVE ReadDecimal(_)
ReadDecimal(s) ==
    IF s = <<>> THEN <<0, 0, 0, 0, 0>>
    ELSE Times10Plus(ReadDecimal(SubSeq(s, 1, Len(s) - 1)), DigitValue(s[Len(s)]))

Padded(bits) == [i \in 1..5 |-> IF i <= Len(bits) THEN bits[i] ELSE 0]

CarryInSum(x, y, i) ==
    LET c[j \in 1..i] == IF j = 1 THEN 0 ELSE (x[j - 1] + y[j - 1] + c[j - 1]) \div Base
    IN  c[i]

Sum(x, y) == [i \in 1..Len(x) |-> (x[i] + y[i] + CarryInSum(x, y, i)) % Base]

\* text is the canonical base-10 form of the integer of the given type and
\* bit pattern: at most 20 characters, '-' exactly for a negative value, no
\* leading zero but "0" itself, and the digits read back give the value (for
\* a negative value of w limbs: magnitude + pattern = 2^(16w)).
IsCanonicalDecimal(text, type, bits) ==
    LET w == Len(bits)
        negative == type \in SignedTypes /\ bits[w] >= Base \div 2
        minus == Len(text) > 0 /\ text[1] = "-"
        body == IF minus THEN Tail(text) ELSE text
        magnitude == ReadDecimal(body)
    IN  /\ Len(text) \in 1..20
        /\ minus <=> negative
        /\ IsJsonInt(body)
        /\ IF negative
           THEN Sum(magnitude, Padded(bits)) = [i \in 1..5 |-> IF i = w + 1 THEN 1 ELSE 0]
           ELSE magnitude = Padded(bits)

\* C5: setInt(x) never takes the no-op branch: afterwards the tag is Number
\* and the text payload is the canonical base-10 representation of x, also at
\* the extremes of the 64-bit ranges.
C5_SetIntStoresCanonicalDecimal ==
    After("setInt") =>
        /\ typ = "VNUM" /\ entries = <<>> /\ values = <<>>
        /\ IsCanonicalDecimal(val, call.arg.type, call.arg.bits)

C5_Witness ==
    /\ After("setInt")
    /\ call.arg = [type |-> "long long", bits |-> <<0, 0, 0, 32768>>]
    /\ pre.typ = "VSTR"
    /\ typ = "VNUM" /\ Len(val) = 20 /\ val[1] = "-" /\ val[20] = "8"

\* C6: after setNull, whatever the Value was, the tag is Null, the text
\* payload is empty and the array and object payloads have length 0.
C6_SetNullClearsEverything ==
    After("setNull") =>
        typ = "VNULL" /\ val = <<>> /\ Len(entries) = 0 /\ Len(values) = 0

C6_Witness ==
    /\ After("setNull")
    /\ pre.typ = "VARR" /\ Len(pre.values) = MaxElems
    /\ typ = "VNULL"

\* C7: setBool, setObject, setArray and setStr are total transitions whose
\* result depends on the argument alone: the new tag, the active payload
\* equal to the argument, nothing of the old payload.
C7_SettersDependOnArgumentOnly ==
    /\ After("setBool") =>
         This = UV(IF call.arg THEN "VTRUE" ELSE "VFALSE", <<>>, <<>>, <<>>)
    /\ After("setObject") => This = UV("VOBJ", <<>>, call.arg, <<>>)
    /\ After("setArray") => This = UV("VARR", <<>>, <<>>, call.arg)
    /\ After("setStr") => This = UV("VSTR", call.arg, <<>>, <<>>)

C7_Witness ==
    /\ After("setObject")
    /\ pre.typ = "VNUM" /\ pre.val # <<>>
    /\ Len(call.arg) = 2 /\ entries = call.arg
    /\ typ = "VOBJ" /\ val = <<>>

HasKey(vector, key) == \E i \in 1..Len(vector) : vector[i].first = key

IsFirstMatch(vector, key, i) ==
    /\ i \in 1..Len(vector)
    /\ vector[i].first = key
    /\ \A j \in 1..(i - 1) : vector[j].first # key

ReturnsFirstMatch(key) ==
    /\ ret.kind \in {"ref", "ptr"}
    /\ ret.addr.base = "entries"
    /\ IsFirstMatch(entries, key, ret.addr.idx + 1)

\* C8: locate, operator[] by key and at by key on an Object return the value
\* of the first pair, in insertion order, whose key equals the argument; a
\* later pair with the same key is never the one returned.
C8_KeyLookupReturnsFirstMatch ==
    (/\ pc = "called"
     /\ call.op \in {"locate", "operator[](key)", "at(key)"}
     /\ typ = "VOBJ"
     /\ HasKey(entries, call.arg)) => ReturnsFirstMatch(call.arg)

C8_Witness ==
    /\ After("locate")
    /\ typ = "VOBJ" /\ Len(entries) = 3
    /\ entries[1].first = "a" /\ entries[2].first = "b" /\ entries[3].first = "a"
    /\ entries[1].second # entries[3].second
    /\ call.arg = "a"
    /\ ret.addr = EntryAddr(0)

\* C9: operator[] never fails.  By key it returns the first matching pair's
\* value when the tag is Object and the key is present, and the sentinel for
\* a missing key or any other tag; by index it returns the index-th element
\* when the tag is Object or Array and index < size, and the sentinel
\* otherwise.
C9_SubscriptNeverFails ==
    /\ After("operator[](key)") =>
         /\ ret.kind = "ref"
         /\ IF typ = "VOBJ" /\ HasKey(entries, call.arg)
            THEN ReturnsFirstMatch(call.arg)
            ELSE ret.addr = Sentinel
    /\ After("operator[](index)") =>
         /\ ret.kind = "ref"
         /\ IF typ = "VOBJ" /\ call.arg < Len(entries)
            THEN ret.addr = [base |-> "entries", idx |-> call.arg]
            ELSE IF typ = "VARR" /\ call.arg < Len(values)
            THEN ret.addr = [base |-> "values", idx |-> call.arg]
            ELSE ret.addr = Sentinel

C9_Witness ==
    /\ After("operator[](index)")
    /\ typ = "VOBJ" /\ Len(entries) = MaxPairs
    /\ call.arg = Len(entries)
    /\ ret.addr = Sentinel

TagName ==
    [VNULL |-> "null", VFALSE |-> "false", VTRUE |-> "true", VOBJ |-> "object",
     VARR |-> "array", VNUM |-> "number", VSTR |-> "string"]

Mentions(what, piece) == \E i \in 1..Len(what) : what[i] = piece

\* C10: at(key) returns the first matching pair's value when the tag is
\* Object and the key is present; throws out_of_range with the key in the
\* message when the tag is Object and the key is absent; and throws
\* domain_error naming the actual type for every other tag, Array included.
C10_AtKeyReturnsOrThrows ==
    After("at(key)") =>
        IF typ = "VOBJ"
        THEN IF HasKey(entries, call.arg)
             THEN ret.kind = "ref" /\ ReturnsFirstMatch(call.arg)
             ELSE /\ ret.kind = "throw" /\ ret.type = "out_of_range"
                  /\ Mentions(ret.what, call.arg)
        ELSE /\ ret.kind = "throw" /\ ret.type = "domain_error"
             /\ Mentions(ret.what, TagName[typ])

C10_Witness ==
    /\ After("at(key)")
    /\ typ = "VARR" /\ values # <<>>
    /\ ret.kind = "throw" /\ ret.type = "domain_error"
    /\ Mentions(ret.what, "array")
\* C11: at(index) returns the index-th stored element in insertion order
\* (duplicate keys included) when the tag is Object or Array and index <
\* size; throws out_of_range carrying the index and the size exactly when the
\* tag is Object or Array and index >= size; throws domain_error otherwise.
C11_AtIndexReturnsOrThrows ==
    After("at(index)") =>
        LET size == IF typ = "VOBJ" THEN Len(entries) ELSE Len(values)
        IN  IF typ \in {"VOBJ", "VARR"}
            THEN IF call.arg < size
                 THEN /\ ret.kind = "ref"
                      /\ ret.addr = [base |-> IF typ = "VOBJ" THEN "entries" ELSE "values",
                                     idx |-> call.arg]
                 ELSE /\ ret.kind = "throw" /\ ret.type = "out_of_range"
                      /\ Mentions(ret.what, ToString(call.arg))
                      /\ Mentions(ret.what, ToString(size))
            ELSE ret.kind = "throw" /\ ret.type = "domain_error"

C11_Witness ==
    /\ After("at(index)")
    /\ typ = "VARR" /\ Len(values) = 2
    /\ call.arg = MaxPairs + 1
    /\ ret.type = "out_of_range"
    /\ Mentions(ret.what, "2")
\* C12: locate(key) returns a non-null pointer, to the first matching pair's
\* value, if and only if the tag is Object and the key is present; for every
\* other tag it returns the null pointer, whatever was set before.
C12_LocateNonNullIffObjectHasKey ==
    After("locate") =>
        /\ ret.kind = "ptr"
        /\ ret.addr # [base |-> "nullptr", idx |-> 0]
             <=> (typ = "VOBJ" /\ HasKey(entries, call.arg))
        /\ ret.addr # [base |-> "nullptr", idx |-> 0] => ReturnsFirstMatch(call.arg)

C12_Witness ==
    /\ After("locate")
    /\ typ = "VARR" /\ Len(values) = MaxElems
    /\ call.arg = "a"
    /\ ret.addr = nullptr

\* C17: front() and back() never fail: on a non-empty Object or Array they
\* return the first and the last stored element; on an empty container or
\* any other tag they return the sentinel.
C17_FrontBackNeverFail ==
    LET size == IF typ = "VOBJ" THEN Len(entries) ELSE IF typ = "VARR" THEN Len(values) ELSE 0
        base == IF typ = "VOBJ" THEN "entries" ELSE "values"
    IN  /\ After("front") =>
             /\ ret.kind = "ref"
             /\ IF size > 0 THEN ret.addr = [base |-> base, idx |-> 0]
                ELSE ret.addr = [base |-> "NullUniValue", idx |-> 0]
        /\ After("back") =>
             /\ ret.kind = "ref"
             /\ IF size > 0 THEN ret.addr = [base |-> base, idx |-> size - 1]
                ELSE ret.addr = [base |-> "NullUniValue", idx |-> 0]

C17_Witness ==
    /\ After("back")
    /\ typ = "VOBJ" /\ Len(entries) = MaxPairs
    /\ entries[1].second # entries[MaxPairs].second
    /\ ret.addr = EntryAddr(MaxPairs - 1)
\* C13: the sentinel is never mutated: after any sequence of setters, reads,
\* mutable at and locate and writes through what these return, it still has
\* tag Null and empty payloads; no mutable accessor returns a reference or
\* pointer to it (mutable at throws, mutable locate returns null).
C13_SentinelNeverMutated ==
    /\ sentinel = UV("VNULL", <<>>, <<>>, <<>>)
    /\ (pc \in {"called", "wrote"} /\ call.op \in MutableOps) =>
         ret.addr # [base |-> "NullUniValue", idx |-> 0]

C13_Witness ==
    /\ pc = "wrote"
    /\ call.op = "at(key) mutable"
    /\ call.arg = "a"
    /\ pre.entries[1].first = "a"
    /\ entries[1].second # pre.entries[1].second
    /\ sentinel = NullUniValue
\* C14: two Values are equal if and only if their tags are equal and, for
\* Number and String, their texts are identical character for character; for
\* Object and Array, their containers are equal; Null, True and False are
\* equal on the tag alone; Values of different tags are never equal.
C14_EqualIffSameTagAndPayload ==
    After("operator==") =>
        LET other == call.arg
        IN  ret.value <=>
              /\ typ = other.typ
              /\ typ \in {"VNUM", "VSTR"} =>
                   /\ Len(val) = Len(other.val)
                   /\ \A i \in 1..Len(val) : val[i] = other.val[i]
              /\ typ = "VOBJ" => entries = other.entries
              /\ typ = "VARR" => values = other.values

C14_Witness ==
    /\ After("operator==")
    /\ typ = "VNUM" /\ val = <<"1", ".", "5", "0">>
    /\ call.arg = Num(<<"1", ".", "5">>)
    /\ ret.value = FALSE

Occurrences(s, x) == Cardinality({i \in 1..Len(s) : s[i] = x})

SameElementsOtherOrder(a, b) ==
    /\ a # b
    /\ Len(a) = Len(b)
    /\ \A i \in 1..Len(a) : Occurrences(a, a[i]) = Occurrences(b, a[i])

\* C15: equality of Objects is order-sensitive: two Objects are equal if and
\* only if they have the same number of pairs and, at every position, equal
\* keys and equal values; the same pairs in another order are unequal.
\* Arrays likewise compare element by element in order.
C15_ContainerEqualityIsOrderSensitive ==
    After("operator==") =>
        LET other == call.arg
        IN  /\ (typ = "VOBJ" /\ other.typ = "VOBJ") =>
                 /\ ret.value <=>
                      /\ Len(entries) = Len(other.entries)
                      /\ \A i \in 1..Len(entries) :
                           /\ entries[i].first = other.entries[i].first
                           /\ entries[i].second = other.entries[i].second
                 /\ SameElementsOtherOrder(entries, other.entries) => ~ret.value
            /\ (typ = "VARR" /\ other.typ = "VARR") =>
                 /\ ret.value <=>
                      /\ Len(values) = Len(other.values)
                      /\ \A i \in 1..Len(values) : values[i] = other.values[i]
                 /\ SameElementsOtherOrder(values, other.values) => ~ret.value

C15_Witness ==
    /\ After("operator==")
    /\ typ = "VOBJ" /\ call.arg.typ = "VOBJ"
    /\ Len(entries) = 2 /\ Len(call.arg.entries) = 2
    /\ entries[1] = call.arg.entries[2]
    /\ entries[2] = call.arg.entries[1]
    /\ entries[1].first # entries[2].first
    /\ ret.value = FALSE
\* The tags whose bit is set in mask, in the canonical order.
TagsIn(mask) ==
    LET IsSet(tag) == (mask \div VTypeBit[tag]) % 2 = 1
    IN  SelectSeq(<<"VNULL", "VFALSE", "VTRUE", "VOBJ", "VARR", "VNUM", "VSTR">>, IsSet)

\* C16: uvTypeName(mask) is the names of exactly the tags whose bit is set,
\* each once, joined by '/', in the order null, false, true, object, array,
\* number, string; the empty mask gives the empty string, a one-bit mask the
\* single-tag name, and the result never starts or ends with '/'.
C16_MaskNamesJoinedInOrder ==
    After("uvTypeName(int)") =>
        LET tags == TagsIn(call.arg)
            n == Len(tags)
            pieces == ret.value
        IN  /\ Len(pieces) = IF n = 0 THEN 0 ELSE 2 * n - 1
            /\ \A i \in 1..n : pieces[2 * i - 1] = TagName[tags[i]]
            /\ \A i \in 1..(n - 1) : pieces[2 * i] = "/"
            /\ n = 1 => pieces = <<uvTypeName(tags[1])>>
            /\ n > 0 => pieces[1] # "/" /\ pieces[Len(pieces)] # "/"

C16_Witness ==
    /\ After("uvTypeName(int)")
    /\ call.arg = VTypeBit["VARR"] + VTypeBit["VOBJ"]
    /\ ret.value = <<"object", "/", "array">>
\* C18: a copying setter called with a reference to the Value's own payload
\* stores what the reference denoted when the call was made: setStr and
\* setNumStr keep the text, setObject and setArray keep the container's
\* contents, and setNumStr never leaves tag Number with empty text.
C18_SelfReferenceKeepsPayload ==
    (pc = "called" /\ call.alias) =>
        /\ call.arg = (CASE call.op = "setObject" -> pre.entries
                         [] call.op = "setArray" -> pre.values
                         [] OTHER -> pre.val)
        /\ call.op = "setStr" => This = UV("VSTR", call.arg, <<>>, <<>>)
        /\ call.op = "setNumStr" =>
             /\ This = IF IsJsonNumber(call.arg) THEN UV("VNUM", call.arg, <<>>, <<>>) ELSE pre
             /\ ~(typ = "VNUM" /\ val = <<>>)
        /\ call.op = "setObject" => This = UV("VOBJ", <<>>, call.arg, <<>>)
        /\ call.op = "setArray" => This = UV("VARR", <<>>, <<>>, call.arg)

\* The four self-referencing calls, each taken alone.
C18_SetStrSelf ==
    (pc = "called" /\ call.alias /\ call.op = "setStr") => val = pre.val

C18_SetNumStrSelf ==
    (pc = "called" /\ call.alias /\ call.op = "setNumStr") => ~(typ = "VNUM" /\ val = <<>>)

C18_SetObjectSelf ==
    (pc = "called" /\ call.alias /\ call.op = "setObject") => entries = pre.entries

C18_SetArraySelf ==
    (pc = "called" /\ call.alias /\ call.op = "setArray") => values = pre.values
\* at and operator[] agree on one argument: at throws exactly when
\* operator[] returns the sentinel itself, and otherwise both return the
\* same stored element.
Agree(atResult, subscriptResult) ==
    /\ subscriptResult.kind = "ref"
    /\ atResult.kind \in {"ref", "throw"}
    /\ (atResult.kind = "throw") <=> (subscriptResult.addr = Sentinel)
    /\ atResult.kind = "ref" => atResult.addr = subscriptResult.addr

\* C19: on every Value and every key or index, at(k) throws exactly when
\* operator[](k) returns the Null sentinel itself, and when at(k) does not
\* throw both return the same stored element; likewise at(i) and
\* operator[](i).
C19_AtAgreesWithSubscript ==
    /\ \A k \in LookupKeys : Agree(atKey(This, k), subscriptKey(This, k))
    /\ \A i \in Indexes : Agree(atIndex(This, i), subscriptIndex(This, i))

C19_Witness ==
    /\ After("at(index)")
    /\ typ = "VARR" /\ Len(values) = 2
    /\ call.arg = 1
    /\ ret = subscriptIndex(This, 1) /\ ret.addr = ValueAddr(1)
    /\ atIndex(This, 2).kind = "throw" /\ subscriptIndex(This, 2).addr = Sentinel
    /\ atKey(This, "a").kind = "throw" /\ subscriptKey(This, "a").addr = Sentinel

ReadOps ==
    {"operator[](key)", "operator[](index)", "front", "back", "locate",
     "at(key)", "at(index)", "operator==", "uvTypeName"} \cup MutableOps

\* C20: operator[], front, back, locate, at (returning or throwing),
\* operator== and uvTypeName leave the tag and every payload of the Value
\* unchanged, and the sentinel too; a lookup of a missing key or an
\* out-of-range index inserts nothing.
C20_ReadsArePure ==
    (pc = "called" /\ call.op \in ReadOps) =>
        /\ This = pre
        /\ sentinel = NullUniValue
        /\ Len(entries) = Len(pre.entries) /\ Len(values) = Len(pre.values)

C20_Witness ==
    /\ After("operator[](key)")
    /\ typ = "VOBJ" /\ entries # <<>>
    /\ ~HasKey(entries, call.arg)
    /\ ret.addr = Sentinel
    /\ This = pre
(***************************************************************************)
(* scantxoutset (blockchain.cpp 2330-2537).  Each thread of ScanThreads    *)
(* makes calls of scantxoutset, one after another; the threads interleave  *)
(* at every access to shared state.  The body of reserve() and the body    *)
(* of the destructor's if are critical sections of g_utxosetscan, and      *)
(* g_scan_in_progress is accessed nowhere else: each is one step.          *)
(***************************************************************************)
ScanActions == {"status", "abort", "start"}

\* if (++count % 8192 == 0): the abort flag is read once every this many coins.
AbortCheckEvery == 8192

MaxChunks == 1

\* Sizes of the UTXO set the cursor runs over: around the multiples of
\* AbortCheckEvery.
UtxoSizes ==
    { c * AbortCheckEvery + d : c \in 0..MaxChunks, d \in {-1, 0, 1} } \cap Nat

\* Values the progress estimate (computed from the txid at the cursor) takes.
ProgressValues == {0, 50, 100}

ScanFrame == UNCHANGED <<univalueVars, waitVars>>

\* The reserver of thread t holds the reservation: it is alive and its
\* reserve() returned true.
Holds(t) == scan[t].pc \notin {"idle", "done"} /\ scan[t].m_could_reserve

Holder == IF \E t \in ScanThreads : Holds(t) THEN CHOOSE t \in ScanThreads : Holds(t) ELSE "none"

\* A thread enters scantxoutset; the reserver is constructed.
ScanCall(t) ==
    /\ scan[t].pc = "idle"
    /\ \E a \in ScanActions :
         scan' = [scan EXCEPT ![t] = [NoScanCall EXCEPT !.pc = "reserve", !.action = a]]
    /\ UNCHANGED <<g_scan_in_progress, g_should_abort_scan, g_scan_progress>>
    /\ ScanFrame

\* Where each action goes when reserve() returns true / false.
AfterReserve(action, could_reserve) ==
    CASE action = "status" /\ could_reserve -> [pc |-> "dtor", result |-> "null"]
      [] action = "status" /\ ~could_reserve -> [pc |-> "status:load", result |-> "none"]
      [] action = "abort" /\ could_reserve -> [pc |-> "dtor", result |-> "false"]
      [] action = "abort" /\ ~could_reserve -> [pc |-> "abort:set", result |-> "none"]
      [] action = "start" /\ could_reserve -> [pc |-> "start:parse", result |-> "none"]
      [] action = "start" /\ ~could_reserve ->
           [pc |-> "dtor", result |-> "throw: Scan already in progress"]

\* CoinsViewScanReserver::reserve and the branch on its result.
reserve(t) ==
    IF g_scan_in_progress
    THEN /\ scan' = [scan EXCEPT ![t].pc = AfterReserve(scan[t].action, FALSE).pc,
                                 ![t].result = AfterReserve(scan[t].action, FALSE).result,
                                 ![t].blocked_by =
                                     IF Holder = "none" THEN "none" ELSE scan[Holder].action]
         /\ UNCHANGED g_scan_in_progress
    ELSE /\ g_scan_in_progress' = TRUE
         /\ scan' = [scan EXCEPT ![t].m_could_reserve = TRUE,
                                 ![t].pc = AfterReserve(scan[t].action, TRUE).pc,
                                 ![t].result = AfterReserve(scan[t].action, TRUE).result]

Reserve(t) ==
    /\ scan[t].pc = "reserve"
    /\ reserve(t)
    /\ UNCHANGED <<g_should_abort_scan, g_scan_progress>>
    /\ ScanFrame

\* "status" while a reservation is held: the progress is read and returned.
StatusLoad(t) ==
    /\ scan[t].pc = "status:load"
    /\ scan' = [scan EXCEPT ![t].pc = "dtor", ![t].result = "progress"]
    /\ UNCHANGED <<g_scan_in_progress, g_should_abort_scan, g_scan_progress>>
    /\ ScanFrame

\* "abort" while a reservation is held: the flag is set and true returned.
\* Every call holding a reservation at that moment notes the request.
AbortSet(t) ==
    /\ scan[t].pc = "abort:set"
    /\ g_should_abort_scan' = TRUE
    /\ scan' = [u \in ScanThreads |->
                  IF u = t THEN [scan[u] EXCEPT !.pc = "dtor", !.result = "true"]
                  ELSE IF Holds(u) THEN [scan[u] EXCEPT !.abort_seen_at = scan[u].pc]
                  ELSE scan[u]]
    /\ UNCHANGED <<g_scan_in_progress, g_scan_progress>>
    /\ ScanFrame

\* "start": the scan objects are parsed; a bad one throws.
StartParse(t) ==
    /\ scan[t].pc = "start:parse"
    /\ \/ scan' = [scan EXCEPT ![t].pc = "start:reset"]
       \/ scan' = [scan EXCEPT ![t].pc = "dtor", ![t].result = "throw: invalid scan object"]
    /\ UNCHANGED <<g_scan_in_progress, g_should_abort_scan, g_scan_progress>>
    /\ ScanFrame

\* g_should_abort_scan = false;
StartResetAbort(t) ==
    /\ scan[t].pc = "start:reset"
    /\ g_should_abort_scan' = FALSE
    /\ scan' = [scan EXCEPT ![t].pc = "start:cursor"]
    /\ UNCHANGED <<g_scan_in_progress, g_scan_progress>>
    /\ ScanFrame

\* g_scan_progress = 0; the cursor is opened; FindScriptPubKey begins.
StartOpenCursor(t) ==
    /\ scan[t].pc = "start:cursor"
    /\ g_scan_progress' = 0
    /\ \E n \in UtxoSizes :
         scan' = [scan EXCEPT ![t].pc = "start:scan", ![t].items = n, ![t].count = 0]
    /\ UNCHANGED <<g_scan_in_progress, g_should_abort_scan>>
    /\ ScanFrame

\* The count at which the loop next reads the abort flag, or the end of
\* the cursor if that comes first.
NextStop(count, items) ==
    LET check == (count \div AbortCheckEvery + 1) * AbortCheckEvery
    IN  IF check <= items THEN check ELSE items

\* FindScriptPubKey's loop, from one read of shared state to the next: the
\* coins up to the next abort check, or up to the end of the cursor.
ScanStep(t) ==
    /\ scan[t].pc = "start:scan"
    /\ LET c == scan[t].count
           n == scan[t].items
           stop == NextStop(c, n)
       IN  IF c = n
           THEN \* !cursor->Valid(): scan_progress = 100; return true
                /\ g_scan_progress' = 100
                /\ scan' = [scan EXCEPT ![t].pc = "dtor", ![t].result = "success=true"]
           ELSE \/ \* GetKey or GetValue fails: return false
                   /\ scan' = [scan EXCEPT ![t].pc = "dtor", ![t].result = "success=false"]
                   /\ UNCHANGED g_scan_progress
                \/ /\ stop % AbortCheckEvery = 0
                   /\ g_should_abort_scan
                   /\ scan' = [scan EXCEPT ![t].pc = "dtor", ![t].count = stop,
                                           ![t].result = "success=false"]
                   /\ \E p \in ProgressValues : g_scan_progress' = p
                \/ /\ ~(stop % AbortCheckEvery = 0 /\ g_should_abort_scan)
                   /\ scan' = [scan EXCEPT ![t].count = stop]
                   /\ \E p \in ProgressValues : g_scan_progress' = p
    /\ UNCHANGED <<g_scan_in_progress, g_should_abort_scan>>
    /\ ScanFrame

\* Mutant: the destructor clears the flag whether or not it reserved.
Destructor_unconditional(t) ==
    /\ scan[t].pc = "dtor"
    /\ g_scan_in_progress' = FALSE
    /\ scan' = [scan EXCEPT ![t].pc = "done"]
    /\ UNCHANGED <<g_should_abort_scan, g_scan_progress>>
    /\ ScanFrame

\* ~CoinsViewScanReserver, run when the call leaves by return or by throw.
Destructor(t) ==
    /\ scan[t].pc = "dtor"
    /\ g_scan_in_progress' = IF scan[t].m_could_reserve THEN FALSE ELSE g_scan_in_progress
    /\ scan' = [scan EXCEPT ![t].pc = "done"]
    /\ UNCHANGED <<g_should_abort_scan, g_scan_progress>>
    /\ ScanFrame

\* The caller has the result; the thread is free for another call.
ScanReturn(t) ==
    /\ scan[t].pc = "done"
    /\ scan' = [scan EXCEPT ![t] = NoScanCall]
    /\ UNCHANGED <<g_scan_in_progress, g_should_abort_scan, g_scan_progress>>
    /\ ScanFrame

NextScan ==
    \E t \in ScanThreads :
        \/ ScanCall(t)
        \/ Reserve(t)
        \/ StatusLoad(t)
        \/ AbortSet(t)
        \/ StartParse(t)
        \/ StartResetAbort(t)
        \/ StartOpenCursor(t)
        \/ ScanStep(t)
        \/ Destructor(t)
        \/ ScanReturn(t)

SpecScan == Init /\ [][NextScan]_vars

Holders == {t \in ScanThreads : Holds(t)}

\* C21: at most one CoinsViewScanReserver holds the reservation at a time;
\* g_scan_in_progress is true exactly while some reserver holds it; a
\* reserver whose reserve() returned false leaves the flag alone when it is
\* destroyed, and the holder has cleared it once destroyed, also when
\* "start" left by throwing.
C21_ReservationIsExclusive ==
    /\ Cardinality(Holders) <= 1
    /\ g_scan_in_progress <=> Holders # {}
    /\ \A t \in ScanThreads :
         (scan[t].pc = "done" /\ ~scan[t].m_could_reserve) =>
             (g_scan_in_progress <=> \E u \in ScanThreads \ {t} : Holds(u))
    /\ \A t \in ScanThreads :
         (scan[t].pc = "done" /\ scan[t].m_could_reserve) => t \notin Holders

C21_Witness ==
    /\ scan["t1"].pc = "start:scan" /\ Holds("t1")
    /\ scan["t2"].pc = "done" /\ ~scan["t2"].m_could_reserve
    /\ scan["t2"].result = "throw: Scan already in progress"
    /\ g_scan_in_progress
\* C22: when "abort" returns true, the scan that was in progress stops early
\* and reports success=false: no "start" call that held the reservation
\* when such an abort set the flag ends with success=true.
C22_AbortTrueStopsScan ==
    \A t \in ScanThreads :
        (scan[t].action = "start" /\ scan[t].result = "success=true") =>
            scan[t].abort_seen_at = "none"

\* The same for an abort that arrives while the cursor is being iterated.
C22_AbortDuringIterationStopsScan ==
    \A t \in ScanThreads :
        (scan[t].action = "start" /\ scan[t].result = "success=true") =>
            scan[t].abort_seen_at # "start:scan"

\* The same for an abort that arrives after "start" has reserved the scan
\* and before it has begun iterating.
C22_AbortBeforeIterationStopsScan ==
    \A t \in ScanThreads :
        (scan[t].action = "start" /\ scan[t].result = "success=true") =>
            scan[t].abort_seen_at \notin {"start:parse", "start:reset"}

\* C23: a scan is reported as in progress only when a "start" call holds
\* the reservation: "start" throws "Scan already in progress", "status"
\* returns a progress object and "abort" returns true only if the
\* reservation that made reserve() fail was held by a "start" call.
C23_InProgressMeansStartRunning ==
    \A t \in ScanThreads :
        scan[t].result \in {"throw: Scan already in progress", "progress", "true"} =>
            scan[t].blocked_by = "start"
(***************************************************************************)
(* RPCNotifyBlockChange and the waitfor* RPCs (blockchain.cpp 207-374).    *)
(* One thread delivers notifications, one thread is inside a waitfor* RPC, *)
(* and the RPC server may stop; they interleave at every access to shared  *)
(* state.  cond_blockchange.wait(lock, pred) is while (!pred()) wait(lock) *)
(* and wait(lock) releases the mutex and blocks in one step; a blocked     *)
(* thread is released by notify_all, by a timeout of wait_for, or          *)
(* spuriously.                                                             *)
(***************************************************************************)
WaitRpcs == {"waitfornewblock", "waitforblock", "waitforblockheight"}

\* The timeout argument in milliseconds: none, or some.
Timeouts == {0, 1000}

MaxHeight == 3

Hashes == {b.hash : b \in BlockIndex}

WaitFrame == UNCHANGED <<univalueVars, scanVars>>

IsRPCRunning == rpcRunning

\* The RPC server stops.
StopRPC ==
    /\ rpcRunning
    /\ rpcRunning' = FALSE
    /\ UNCHANGED <<latestblock, cs_blockchange, notifier, waiter>>
    /\ WaitFrame

\* RPCNotifyBlockChange is called, with a block index or with null.
NotifyCall ==
    /\ notifier.pc = "idle"
    /\ \E pindex \in BlockIndex \cup {NullIndex} :
         notifier' = [pc |-> IF pindex # NullIndex THEN "lock" ELSE "notify",
                      pindex |-> pindex, pre |-> latestblock,
                      after_stop |-> ~rpcRunning]
    /\ UNCHANGED <<latestblock, cs_blockchange, rpcRunning, waiter>>
    /\ WaitFrame

\* Mutant: the notifier writes latestblock without taking cs_blockchange.
NotifyLock_noMutex ==
    /\ notifier.pc = "lock"
    /\ notifier' = [notifier EXCEPT !.pc = "hash"]
    /\ UNCHANGED <<latestblock, cs_blockchange, rpcRunning, waiter>>
    /\ WaitFrame

\* std::lock_guard<std::mutex> lock(cs_blockchange);
NotifyLock ==
    /\ notifier.pc = "lock"
    /\ cs_blockchange = "none"
    /\ cs_blockchange' = "notifier"
    /\ notifier' = [notifier EXCEPT !.pc = "hash"]
    /\ UNCHANGED <<latestblock, rpcRunning, waiter>>
    /\ WaitFrame

\* latestblock.hash = pindex->GetBlockHash();
NotifyHash ==
    /\ notifier.pc = "hash"
    /\ latestblock' = [latestblock EXCEPT !.hash = notifier.pindex.hash]
    /\ notifier' = [notifier EXCEPT !.pc = "height"]
    /\ UNCHANGED <<cs_blockchange, rpcRunning, waiter>>
    /\ WaitFrame

\* latestblock.height = pindex->nHeight; and the lock_guard's scope ends.
NotifyHeight ==
    /\ notifier.pc = "height"
    /\ latestblock' = [latestblock EXCEPT !.height = notifier.pindex.nHeight]
    /\ cs_blockchange' = IF cs_blockchange = "notifier" THEN "none" ELSE cs_blockchange
    /\ notifier' = [notifier EXCEPT !.pc = "notify"]
    /\ UNCHANGED <<rpcRunning, waiter>>
    /\ WaitFrame

\* cond_blockchange.notify_all(): a thread blocked in wait is released.
NotifyAll ==
    /\ notifier.pc = "notify"
    /\ waiter' = IF waiter.pc = "waiting" THEN [waiter EXCEPT !.pc = "woken"] ELSE waiter
    /\ notifier' = [notifier EXCEPT !.pc = "returned"]
    /\ UNCHANGED <<latestblock, cs_blockchange, rpcRunning>>
    /\ WaitFrame

\* The caller of RPCNotifyBlockChange goes on.
NotifyReturn ==
    /\ notifier.pc = "returned"
    /\ notifier' = [notifier EXCEPT !.pc = "idle"]
    /\ UNCHANGED <<latestblock, cs_blockchange, rpcRunning, waiter>>
    /\ WaitFrame
\* Mutant: waitfornewblock does not wait for anything.
waitfornewblock_pred_noWait == TRUE

\* The predicates the three RPCs wait for, evaluated under cs_blockchange.
waitfornewblock_pred ==
    \/ latestblock.height # waiter.block.height
    \/ latestblock.hash # waiter.block.hash
    \/ ~IsRPCRunning

waitforblock_pred == latestblock.hash = waiter.hash \/ ~IsRPCRunning

\* Mutant: the height has to be passed, not reached.
waitforblockheight_pred_strict == latestblock.height > waiter.height \/ ~IsRPCRunning

waitforblockheight_pred == latestblock.height >= waiter.height \/ ~IsRPCRunning

WaitPred ==
    CASE waiter.rpc = "waitfornewblock" -> waitfornewblock_pred
      [] waiter.rpc = "waitforblock" -> waitforblock_pred
      [] waiter.rpc = "waitforblockheight" -> waitforblockheight_pred

\* A waitfor* RPC is called and its arguments parsed.
WaitCall ==
    /\ waiter.pc = "idle"
    /\ \E rpc \in WaitRpcs, timeout \in Timeouts, hash \in Hashes, height \in 0..MaxHeight :
         waiter' = [NoWait EXCEPT !.pc = "lock", !.rpc = rpc, !.timeout = timeout,
                                  !.hash = IF rpc = "waitforblock" THEN hash ELSE "0",
                                  !.height = IF rpc = "waitforblockheight" THEN height ELSE 0]
    /\ UNCHANGED <<latestblock, cs_blockchange, rpcRunning, notifier>>
    /\ WaitFrame

\* WAIT_LOCK(cs_blockchange, lock); waitfornewblock then copies latestblock.
WaitLock ==
    /\ waiter.pc = "lock"
    /\ cs_blockchange = "none"
    /\ cs_blockchange' = "waiter"
    /\ waiter' = [waiter EXCEPT !.pc = "check", !.at_lock = latestblock,
                                !.block = IF waiter.rpc = "waitfornewblock"
                                          THEN latestblock ELSE waiter.block]
    /\ UNCHANGED <<latestblock, rpcRunning, notifier>>
    /\ WaitFrame

\* The predicate is evaluated, the mutex held: true ends the wait.
WaitCheck ==
    /\ waiter.pc = "check"
    /\ waiter' = [waiter EXCEPT !.pc = IF WaitPred THEN "copy" ELSE "block"]
    /\ UNCHANGED <<latestblock, cs_blockchange, rpcRunning, notifier>>
    /\ WaitFrame

\* wait(lock) / wait_for(lock, ...): the mutex is released and the thread
\* blocks on cond_blockchange.
WaitBlock ==
    /\ waiter.pc = "block"
    /\ cs_blockchange' = "none"
    /\ waiter' = [waiter EXCEPT !.pc = "waiting", !.waited = TRUE]
    /\ UNCHANGED <<latestblock, rpcRunning, notifier>>
    /\ WaitFrame

\* A spurious wake-up.
WaitSpurious ==
    /\ waiter.pc = "waiting"
    /\ waiter' = [waiter EXCEPT !.pc = "woken"]
    /\ UNCHANGED <<latestblock, cs_blockchange, rpcRunning, notifier>>
    /\ WaitFrame

\* wait_for runs out of time; the wait ends whatever the predicate says.
WaitTimeout ==
    /\ waiter.pc = "waiting"
    /\ waiter.timeout # 0
    /\ waiter' = [waiter EXCEPT !.pc = "timedout"]
    /\ UNCHANGED <<latestblock, cs_blockchange, rpcRunning, notifier>>
    /\ WaitFrame

\* The released thread takes the mutex again before wait returns.
WaitReacquire ==
    /\ waiter.pc \in {"woken", "timedout"}
    /\ cs_blockchange = "none"
    /\ cs_blockchange' = "waiter"
    /\ waiter' = [waiter EXCEPT !.pc = IF waiter.pc = "woken" THEN "check" ELSE "copy"]
    /\ UNCHANGED <<latestblock, rpcRunning, notifier>>
    /\ WaitFrame

\* block = latestblock; the scope of the lock ends and the RPC builds its
\* result from block.
WaitCopy ==
    /\ waiter.pc = "copy"
    /\ waiter' = [waiter EXCEPT !.pc = "done", !.block = latestblock]
    /\ cs_blockchange' = "none"
    /\ UNCHANGED <<latestblock, rpcRunning, notifier>>
    /\ WaitFrame

\* The caller has the result.
WaitReturn ==
    /\ waiter.pc = "done"
    /\ waiter' = NoWait
    /\ UNCHANGED <<latestblock, cs_blockchange, rpcRunning, notifier>>
    /\ WaitFrame

NotifierStep ==
    \/ NotifyLock
    \/ NotifyHash
    \/ NotifyHeight
    \/ NotifyAll
    \/ NotifyReturn

WaiterStep ==
    \/ WaitLock
    \/ WaitCheck
    \/ WaitBlock
    \/ WaitReacquire
    \/ WaitCopy

NextWait ==
    \/ StopRPC
    \/ NotifyCall
    \/ NotifierStep
    \/ WaitCall
    \/ WaiterStep
    \/ WaitSpurious
    \/ WaitTimeout
    \/ WaitReturn

SpecWait == Init /\ [][NextWait]_vars

\* Every thread that can take a step takes it, and a thread that asks for
\* the mutex again and again gets it; calls, the stop of the server,
\* spurious wake-ups and timeouts are not promised.
SpecWaitFair == SpecWait /\ WF_vars(NotifierStep) /\ SF_vars(WaiterStep)
\* A call with timeout 0 has returned.
Returned(rpc) == waiter.pc = "done" /\ waiter.rpc = rpc /\ waiter.timeout = 0

\* C24: a waitfornewblock call with timeout 0 returns only after a block
\* change: the block it returns differs in hash or height from latestblock
\* as it was when the call started waiting, unless the RPC server has
\* stopped.
C24_NewBlockReturnsAfterChange ==
    Returned("waitfornewblock") =>
        \/ waiter.block.hash # waiter.at_lock.hash
        \/ waiter.block.height # waiter.at_lock.height
        \/ ~rpcRunning

C24_Witness ==
    /\ Returned("waitfornewblock")
    /\ rpcRunning
    /\ waiter.waited
    /\ waiter.at_lock.hash = "A" /\ waiter.block.hash = "B"
    /\ waiter.block.height = waiter.at_lock.height

\* C25: a waitforblockheight call with timeout 0 returns a block of at least
\* the requested height unless the RPC server has stopped; and if
\* latestblock already has that height when the call takes the lock, the
\* call never blocks.
C25_HeightReachedOrStopped ==
    /\ Returned("waitforblockheight") =>
         (waiter.block.height >= waiter.height \/ ~rpcRunning)
    /\ (/\ waiter.rpc = "waitforblockheight" /\ waiter.timeout = 0
        /\ waiter.pc \notin {"idle", "lock"}
        /\ waiter.at_lock.height >= waiter.height) =>
         (~waiter.waited /\ waiter.pc \in {"check", "copy", "done"})

C25_Witness ==
    /\ Returned("waitforblockheight")
    /\ rpcRunning
    /\ waiter.height = 2 /\ waiter.at_lock.height = 2
    /\ ~waiter.waited
    /\ waiter.block = [hash |-> "C", height |-> 2]

\* The waiter is inside a call with timeout 0, the server has stopped, and
\* a call of RPCNotifyBlockChange made after the stop has completed.
StoppedAndNotified ==
    /\ waiter.pc \notin {"idle", "done"} /\ waiter.timeout = 0
    /\ ~rpcRunning
    /\ notifier.after_stop /\ notifier.pc \in {"returned", "idle"}

\* C26: every waitfor* call with timeout 0 eventually returns once the RPC
\* server is no longer running and RPCNotifyBlockChange has been called,
\* with or without a block, after it stopped.
C26_WaitersReturnOnExit == StoppedAndNotified ~> (waiter.pc \in {"done", "idle"})

\* The state C26 excludes: the call blocked on cond_blockchange with the
\* stop and the notification after it both behind it.
C26_NotBlockedAfterExit == ~(StoppedAndNotified /\ waiter.pc = "waiting")

\* A (hash, height) pair is that of one block, or the initial pair.
SameBlock(b) == b = ZeroBlock \/ [hash |-> b.hash, nHeight |-> b.height] \in BlockIndex

\* C27: the hash and height a waitfor* call returns belong to the same
\* block, whatever notifications run beside it; latestblock is one block's
\* pair whenever cs_blockchange is free; and RPCNotifyBlockChange with a
\* null index leaves latestblock as it was.
C27_HashAndHeightOfOneBlock ==
    /\ waiter.pc = "done" => SameBlock(waiter.block)
    /\ cs_blockchange # "notifier" => SameBlock(latestblock)
    /\ (notifier.pindex = NullIndex /\ notifier.pc \in {"notify", "returned"}) =>
         latestblock = notifier.pre

C27_Witness ==
    /\ waiter.pc = "done" /\ waiter.waited
    /\ waiter.at_lock = [hash |-> "A", height |-> 1]
    /\ waiter.block = [hash |-> "C", height |-> 2]
    /\ notifier.pc = "height" /\ notifier.pindex.hash = "B"
    /\ latestblock = [hash |-> "B", height |-> 2]
(***************************************************************************)
(* CalculatePercentilesBySize (blockchain.cpp 1925-1952).  scores is a     *)
(* vector of (fee rate, size) pairs, sorted in place; the weights are      *)
(* doubles, total_size times a fraction.  Sizes are far below 2^53, where  *)
(* the comparison of an integer with such a double is that of the exact    *)
(* quotient: a weight is kept as numerator and denominator.                *)
(***************************************************************************)
MaxScores == 3
MaxFee == 2
MaxSize == 2

\* total_size / 10.0, total_size / 4.0, total_size / 2.0,
\* (total_size * 3.0) / 4.0, (total_size * 9.0) / 10.0
Weights(total_size) ==
    << [num |-> total_size, den |-> 10], [num |-> total_size, den |-> 4],
       [num |-> total_size, den |-> 2], [num |-> total_size * 3, den |-> 4],
       [num |-> total_size * 9, den |-> 10] >>

\* The length of the weights array.
NUM_GETBLOCKSTATS_PERCENTILES == Len(Weights(0))

\* Mutant: the weight has to be passed, not reached.
ReachesWeight_strict(cumulative_weight, weight) ==
    cumulative_weight * weight.den > weight.num

\* cumulative_weight >= weights[next_percentile_index]
ReachesWeight(cumulative_weight, weight) ==
    cumulative_weight * weight.den >= weight.num

\* operator< of std::pair.
PairLess(a, b) == a.first < b.first \/ (a.first = b.first /\ a.second < b.second)

\* std::sort: the elements in ascending order.
RECURSIVE InsertSorted(_, _)
InsertSorted(sorted, e) ==
    IF sorted = <<>> THEN <<e>>
    ELSE IF PairLess(e, Head(sorted)) THEN <<e>> \o sorted
    ELSE <<Head(sorted)>> \o InsertSorted(Tail(sorted), e)

RECURSIVE sort(_)
sort(scores) ==
    IF scores = <<>> THEN <<>> ELSE InsertSorted(sort(Tail(scores)), Head(scores))

\* The while loop inside the for: result and next_percentile_index (counted
\* from 0) after it.
RECURSIVE AssignReached(_, _, _, _, _)
AssignReached(result, next_percentile_index, cumulative_weight, weights, fee) ==
    IF /\ next_percentile_index < NUM_GETBLOCKSTATS_PERCENTILES
       /\ ReachesWeight(cumulative_weight, weights[next_percentile_index + 1])
    THEN AssignReached([result EXCEPT ![next_percentile_index + 1] = fee],
                       next_percentile_index + 1, cumulative_weight, weights, fee)
    ELSE [result |-> result, next_percentile_index |-> next_percentile_index]

\* The for loop over the sorted scores, from element k on.
RECURSIVE ForEachScore(_, _, _, _, _, _)
ForEachScore(scores, k, result, next_percentile_index, cumulative_weight, weights) ==
    IF k > Len(scores)
    THEN [result |-> result, next_percentile_index |-> next_percentile_index]
    ELSE LET cumulative == cumulative_weight + scores[k].second
             after == AssignReached(result, next_percentile_index, cumulative,
                                    weights, scores[k].first)
         IN  ForEachScore(scores, k + 1, after.result, after.next_percentile_index,
                          cumulative, weights)

\* The whole function: the result array and scores as it leaves them.
CalculatePercentilesBySize(result, scores, total_size) ==
    IF scores = <<>> THEN [result |-> result, scores |-> scores]
    ELSE LET sorted == sort(scores)
             loop == ForEachScore(sorted, 1, result, 0, 0, Weights(total_size))
         IN  [result |-> [i \in 1..NUM_GETBLOCKSTATS_PERCENTILES |->
                            IF i - 1 >= loop.next_percentile_index
                            THEN sorted[Len(sorted)].first
                            ELSE loop.result[i]],
              scores |-> sorted]

Scores == SeqsUpTo([first : 0..MaxFee, second : 1..MaxSize], MaxScores)

\* What the caller's result array holds before the call.
ResultsBefore ==
    { [i \in 1..NUM_GETBLOCKSTATS_PERCENTILES |-> 0],
      [i \in 1..NUM_GETBLOCKSTATS_PERCENTILES |-> MaxFee + i] }

RECURSIVE TotalSize(_)
TotalSize(scores) ==
    IF scores = <<>> THEN 0 ELSE Head(scores).second + TotalSize(Tail(scores))

CallCalculatePercentilesBySize ==
    /\ pc = "idle"
    /\ \E scores \in Scores, result \in ResultsBefore :
          Called("CalculatePercentilesBySize",
                 [result |-> result, scores |-> scores, total_size |-> TotalSize(scores)],
                 This,
                 Value(CalculatePercentilesBySize(result, scores, TotalSize(scores))))

NextPercentiles ==
    \/ CallCalculatePercentilesBySize
    \/ Return

SpecPercentiles == Init /\ [][NextPercentiles]_vars

\* The number of elements of s equal to e.
CountOf(s, e) == Cardinality({i \in 1..Len(s) : s[i] = e})

\* s is in ascending (fee rate, size) order.
Ascending(s) ==
    \A i \in 1..(Len(s) - 1) :
        \/ s[i].first < s[i + 1].first
        \/ s[i].first = s[i + 1].first /\ s[i].second <= s[i + 1].second

\* The sizes of the first k elements, summed.
CumulativeSize(s, k) == TotalSize(SubSeq(s, 1, k))

\* The fee rate of the first element of s at which the cumulative size
\* reaches num/den of total; the largest fee rate if none does.
FeeAtFraction(s, num, den, total) ==
    LET reached == {k \in 1..Len(s) : CumulativeSize(s, k) * den >= total * num}
    IN  IF reached = {} THEN s[Len(s)].first
        ELSE s[CHOOSE k \in reached : \A j \in reached : k <= j].first

\* C28: for a non-empty list whose sizes sum to total_size, result[i] is
\* the fee rate of the first pair, in ascending (fee rate, size) order, at
\* which the cumulative size reaches 10, 25, 50, 75, 90 percent of
\* total_size (the largest fee rate if none does); the five results are
\* non-decreasing and each is a fee rate of the input; for an empty list
\* the result array is left as it was.
C28_PercentilesBySize ==
    After("CalculatePercentilesBySize") =>
        LET in == call.arg
            out == ret.value
            s == out.scores
        IN  IF in.scores = <<>> THEN out.result = in.result
            ELSE /\ Len(s) = Len(in.scores) /\ Ascending(s)
                 /\ \A i \in 1..Len(s) : CountOf(s, s[i]) = CountOf(in.scores, s[i])
                 /\ out.result[1] = FeeAtFraction(s, 10, 100, in.total_size)
                 /\ out.result[2] = FeeAtFraction(s, 25, 100, in.total_size)
                 /\ out.result[3] = FeeAtFraction(s, 50, 100, in.total_size)
                 /\ out.result[4] = FeeAtFraction(s, 75, 100, in.total_size)
                 /\ out.result[5] = FeeAtFraction(s, 90, 100, in.total_size)
                 /\ \A i \in 1..4 : out.result[i] <= out.result[i + 1]
                 /\ \A i \in 1..5 : \E k \in 1..Len(s) : in.scores[k].first = out.result[i]

C28_Witness ==
    /\ After("CalculatePercentilesBySize")
    /\ call.arg.scores = << [first |-> 2, second |-> 2], [first |-> 0, second |-> 1],
                            [first |-> 1, second |-> 1] >>
    /\ ret.value.result = <<0, 0, 1, 2, 2>>
(***************************************************************************)
(* ComputeNextBlockAndDepth (blockchain.cpp 72-81).  The block index is a  *)
(* tree: block 1 is the genesis block, every other block b has a parent    *)
(* pprev[b] among the blocks before it, and nHeight is the distance from   *)
(* the genesis block.  CBlockIndex::GetAncestor is defined outside the     *)
(* files modelled here: it walks pprev down to the given height and gives  *)
(* null for a height below 0 or above the block's own.                     *)
(***************************************************************************)
MaxBlocks == 5

\* A null CBlockIndex pointer.
NoBlock == 0

Trees ==
    UNION { { pprev \in [1..n -> 0..(n - 1)] :
                /\ pprev[1] = NoBlock
                /\ \A b \in 2..n : pprev[b] \in 1..(b - 1) } : n \in 1..MaxBlocks }

RECURSIVE nHeight(_, _)
nHeight(pprev, b) == IF pprev[b] = NoBlock THEN 0 ELSE nHeight(pprev, pprev[b]) + 1

RECURSIVE GetAncestor(_, _, _)
GetAncestor(pprev, b, height) ==
    IF height > nHeight(pprev, b) \/ height < 0 THEN NoBlock
    ELSE IF height = nHeight(pprev, b) THEN b
    ELSE GetAncestor(pprev, pprev[b], height)

\* Mutant: the ancestor found is not compared with blockindex.
ComputeNextBlockAndDepth_noParentTest(pprev, tip, blockindex) ==
    LET next == GetAncestor(pprev, tip, nHeight(pprev, blockindex) + 1)
    IN  IF next # NoBlock
        THEN [return |-> nHeight(pprev, tip) - nHeight(pprev, blockindex) + 1, next |-> next]
        ELSE [return |-> IF blockindex = tip THEN 1 ELSE -1, next |-> NoBlock]

\* The value returned and the value left in the out-parameter next.
ComputeNextBlockAndDepth(pprev, tip, blockindex) ==
    LET next == GetAncestor(pprev, tip, nHeight(pprev, blockindex) + 1)
    IN  IF next # NoBlock /\ pprev[next] = blockindex
        THEN [return |-> nHeight(pprev, tip) - nHeight(pprev, blockindex) + 1, next |-> next]
        ELSE [return |-> IF blockindex = tip THEN 1 ELSE -1, next |-> NoBlock]

CallComputeNextBlockAndDepth ==
    \E pprev \in Trees :
        \E tip \in DOMAIN pprev, blockindex \in DOMAIN pprev :
            Called("ComputeNextBlockAndDepth",
                   [pprev |-> pprev, tip |-> tip, blockindex |-> blockindex],
                   This,
                   Value(ComputeNextBlockAndDepth(pprev, tip, blockindex)))

NextDepth ==
    \/ CallComputeNextBlockAndDepth
    \/ Return

SpecDepth == Init /\ [][NextDepth]_vars

\* The blocks of the chain that ends at tip: tip and all it descends from.
RECURSIVE ChainTo(_, _)
ChainTo(pprev, tip) ==
    IF tip = NoBlock THEN {} ELSE {tip} \cup ChainTo(pprev, pprev[tip])

\* C29: ComputeNextBlockAndDepth(tip, block) returns
\* tip.height - block.height + 1, at least 1, when block is on the chain
\* ending at tip and -1 when it is not; next is the chain's block at height
\* block.height + 1 exactly when block is on the chain and is not the tip,
\* and null otherwise.
C29_DepthAndNextOnChain ==
    After("ComputeNextBlockAndDepth") =>
        LET pprev == call.arg.pprev
            tip == call.arg.tip
            block == call.arg.blockindex
            chain == ChainTo(pprev, tip)
            out == ret.value
        IN  /\ block \in chain =>
                 /\ out.return = Cardinality({b \in chain : block \in ChainTo(pprev, b)})
                 /\ out.return = nHeight(pprev, tip) - nHeight(pprev, block) + 1
                 /\ out.return >= 1
            /\ block \notin chain => out.return = -1
            /\ (block \in chain /\ block # tip) =>
                 /\ out.next \in chain
                 /\ pprev[out.next] = block
                 /\ nHeight(pprev, out.next) = nHeight(pprev, block) + 1
            /\ (block \notin chain \/ block = tip) => out.next = NoBlock
            /\ block = tip => out.return = 1

C29_Witness ==
    /\ After("ComputeNextBlockAndDepth")
    /\ call.arg.pprev = <<0, 1, 1, 2, 4>>
    /\ call.arg.tip = 5 /\ call.arg.blockindex = 2
    /\ ret.value = [return |-> 3, next |-> 4]
====
